---- MODULE Spec2Model ----
(***************************************************************************)
(* Model of src/src/config.rs: the configuration loader of telefeed.       *)
(*                                                                         *)
(* Config::from_file reads a YAML file, deserialises it as RawConfig,      *)
(* resolves the layered defaults and the chat identifiers, and builds a    *)
(* Config.  get_api_config, redis_url and into_feeds are the accessors.    *)
(*                                                                         *)
(* Text that the code inspects character by character (the destination     *)
(* keys, parsed by str::parse::<i64>) is a sequence of one-character       *)
(* strings.  An i64 is a sign and a canonical sequence of decimal digits,  *)
(* so that the whole 64-bit range is represented exactly.                  *)
(***************************************************************************)
EXTENDS Integers, Sequences, FiniteSets, TLC

VARIABLES file, reads, results, orders, configs, last

vars == <<file, reads, results, orders, configs, last>>

-----------------------------------------------------------------------------
(* Bounds of the model.                                                    *)

MaxLoads == 2
MaxKeys == 2
MaxEntries == 2
MaxKeyLen == 3

-----------------------------------------------------------------------------
(* Constants of config.rs.                                                 *)

DEFAULT_INCLUDE_FEED_TITLE == FALSE

DEFAULT_REQUEST_TIMEOUT == 1200

-----------------------------------------------------------------------------
(* Option<T>, with one record shape for every T.                           *)

NoneStr == [some |-> FALSE, v |-> ""]
SomeStr(s) == [some |-> TRUE, v |-> s]
NoneBool == [some |-> FALSE, v |-> FALSE]
SomeBool(b) == [some |-> TRUE, v |-> b]
NoneInt == [some |-> FALSE, v |-> 0]
SomeInt(n) == [some |-> TRUE, v |-> n]

unwrap_or(opt, default) == IF opt.some THEN opt.v ELSE default

-----------------------------------------------------------------------------
(* i64 and str::parse::<i64>.                                              *)

DigitChars == <<"0", "1", "2", "3", "4", "5", "6", "7", "8", "9">>

IsDigit(c) == \E d \in 0..9 : DigitChars[d + 1] = c

DigitVal(c) == CHOOSE d \in 0..9 : DigitChars[d + 1] = c

\* |i64::MAX| = 9223372036854775807 and |i64::MIN| = 9223372036854775808
I64MaxMag == <<9, 2, 2, 3, 3, 7, 2, 0, 3, 6, 8, 5, 4, 7, 7, 5, 8, 0, 7>>
I64MinMag == <<9, 2, 2, 3, 3, 7, 2, 0, 3, 6, 8, 5, 4, 7, 7, 5, 8, 0, 8>>

\* faulty variant of MagLeq: the overflow check compares the digit counts only
MagLeq_ByLength(a, b) == Len(a) <= Len(b)

\* a <= b for canonical digit sequences (no leading zero, zero is <<0>>)
MagLeq(a, b) ==
    \/ Len(a) < Len(b)
    \/ /\ Len(a) = Len(b)
       /\ \/ a = b
          \/ \E i \in 1..Len(a) :
                /\ a[i] < b[i]
                /\ \A j \in 1..(i - 1) : a[j] = b[j]

\* result * 10 + d on magnitudes
PushDigit(mag, d) == IF mag = <<0>> THEN <<d>> ELSE Append(mag, d)

I64(neg, mag) == [neg |-> neg /\ mag # <<0>>, mag |-> mag]

ParseErr == [ok |-> FALSE, val |-> I64(FALSE, <<0>>)]
ParseOk(neg, mag) == [ok |-> TRUE, val |-> I64(neg, mag)]

\* the digit loop of from_str_radix: checked_mul(10), to_digit, then
\* checked_add (positive) or checked_sub (negative)
RECURSIVE ParseDigits(_, _, _, _)
ParseDigits(s, i, neg, mag) ==
    IF i > Len(s) THEN ParseOk(neg, mag)
    ELSE IF ~IsDigit(s[i]) THEN ParseErr
    ELSE LET m == PushDigit(mag, DigitVal(s[i]))
         IN  IF ~MagLeq(m, IF neg THEN I64MinMag ELSE I64MaxMag)
             THEN ParseErr
             ELSE ParseDigits(s, i + 1, neg, m)

\* key.parse::<Integer>() with Integer = i64
ParseInteger(s) ==
    IF s = <<>> THEN ParseErr
    ELSE IF s[1] \in {"+", "-"} /\ Len(s) = 1 THEN ParseErr
    ELSE IF s[1] = "+" THEN ParseDigits(s, 2, FALSE, <<0>>)
    ELSE IF s[1] = "-" THEN ParseDigits(s, 2, TRUE, <<0>>)
    ELSE ParseDigits(s, 1, FALSE, <<0>>)

\* tgbot ChatId: Id(Integer) | Username(String)
ChatIdId(val) == [tag |-> "Id", id |-> val, name |-> <<>>]
ChatIdUsername(s) == [tag |-> "Username", id |-> I64(FALSE, <<0>>), name |-> s]

ResolveChatId(key) ==
    LET r == ParseInteger(key)
    IN  IF r.ok THEN ChatIdId(r.val) ELSE ChatIdUsername(key)

-----------------------------------------------------------------------------
(* The YAML document.  A node is absent, a scalar that reads as a string,  *)
(* a boolean, an unsigned or a negative integer, or a collection.  The     *)
(* inputs give each field either the kind its type reads or a kind no      *)
(* reading of it accepts.  The keys of a YAML mapping are distinct.        *)

Absent == [t |-> "absent", s |-> "", n |-> 0, b |-> FALSE]
Str(x) == [t |-> "str", s |-> x, n |-> 0, b |-> FALSE]
Bool(x) == [t |-> "bool", s |-> "", n |-> 0, b |-> x]
UInt(x) == [t |-> "uint", s |-> "", n |-> x, b |-> FALSE]
NegInt(x) == [t |-> "negint", s |-> "", n |-> x, b |-> FALSE]
Coll == [t |-> "coll", s |-> "", n |-> 0, b |-> FALSE]

Entry(url, kind, ift, rt) ==
    [t |-> "map", url |-> url, kind |-> kind,
     include_feed_title |-> ift, request_timeout |-> rt]

ScalarEntry == [t |-> "str", url |-> Absent, kind |-> Absent,
                include_feed_title |-> Absent, request_timeout |-> Absent]

EntryList(items) == [t |-> "seq", items |-> items]
ScalarList == [t |-> "str", items |-> <<>>]

Pair(key, val) == [key |-> key, val |-> val]

FeedsMap(pairs) == [t |-> "map", pairs |-> pairs]
FeedsAbsent == [t |-> "absent", pairs |-> <<>>]
FeedsScalar == [t |-> "str", pairs |-> <<>>]

Doc(token, proxy, redis_url, feeds, ift, rt) ==
    [token |-> token, proxy |-> proxy, redis_url |-> redis_url, feeds |-> feeds,
     include_feed_title |-> ift, request_timeout |-> rt]

-----------------------------------------------------------------------------
(* serde: #[derive(Deserialize)] of RawConfig, RawFeedConfig and FeedKind. *)

\* String
DeStringOk(node) == node.t = "str"

\* Option<String>
DeOptStringOk(node) == node.t \in {"absent", "str"}
DeOptString(node) == IF node.t = "str" THEN SomeStr(node.s) ELSE NoneStr

\* Option<bool>
DeOptBoolOk(node) == node.t \in {"absent", "bool"}
DeOptBool(node) == IF node.t = "bool" THEN SomeBool(node.b) ELSE NoneBool

\* Option<u64>
DeOptU64Ok(node) == node.t \in {"absent", "uint"}
DeOptU64(node) == IF node.t = "uint" THEN SomeInt(node.n) ELSE NoneInt

\* faulty variant of DeFeedKindOk: any text is taken for a feed kind
DeFeedKindOk_AnyText(node) == node.t = "str"

\* FeedKind: the renamed variants, matched case-sensitively
DeFeedKindOk(node) == node.t = "str" /\ node.s \in {"rss", "atom"}
DeFeedKind(node) == IF node.s = "rss" THEN "Rss" ELSE "Atom"

\* RawFeedConfig
DeRawFeedOk(e) ==
    /\ e.t = "map"
    /\ DeStringOk(e.url)
    /\ DeFeedKindOk(e.kind)
    /\ DeOptBoolOk(e.include_feed_title)
    /\ DeOptU64Ok(e.request_timeout)

DeRawFeed(e) ==
    [url |-> e.url.s,
     kind |-> DeFeedKind(e.kind),
     include_feed_title |-> DeOptBool(e.include_feed_title),
     request_timeout |-> DeOptU64(e.request_timeout)]

\* Vec<RawFeedConfig>
DeRawFeedsOk(l) ==
    /\ l.t = "seq"
    /\ \A j \in 1..Len(l.items) : DeRawFeedOk(l.items[j])

DeRawFeeds(l) == [j \in 1..Len(l.items) |-> DeRawFeed(l.items[j])]

\* HashMap<String, Vec<RawFeedConfig>>
DeFeedsOk(f) ==
    /\ f.t = "map"
    /\ \A n \in 1..Len(f.pairs) : DeRawFeedsOk(f.pairs[n].val)

\* HashMap::insert per pair of the mapping, in file order
LastPair(f, k) ==
    CHOOSE n \in 1..Len(f.pairs) :
        /\ f.pairs[n].key = k
        /\ \A m \in (n + 1)..Len(f.pairs) : f.pairs[m].key # k

DeFeeds(f) ==
    [k \in {f.pairs[n].key : n \in 1..Len(f.pairs)} |->
        DeRawFeeds(f.pairs[LastPair(f, k)].val)]

\* RawConfig
DeRawConfigOk(d) ==
    /\ DeStringOk(d.token)
    /\ DeOptStringOk(d.proxy)
    /\ DeStringOk(d.redis_url)
    /\ DeFeedsOk(d.feeds)
    /\ DeOptBoolOk(d.include_feed_title)
    /\ DeOptU64Ok(d.request_timeout)

DeRawConfig(d) ==
    [token |-> d.token.s,
     proxy |-> DeOptString(d.proxy),
     redis_url |-> d.redis_url.s,
     feeds |-> DeFeeds(d.feeds),
     include_feed_title |-> DeOptBool(d.include_feed_title),
     request_timeout |-> DeOptU64(d.request_timeout)]

-----------------------------------------------------------------------------
(* Config::from_file.                                                      *)

NoConfig == [token |-> "", proxy |-> NoneStr, redis_url |-> "", feeds |-> <<>>]

ResultOk(cfg) == [tag |-> "Ok", cfg |-> cfg, path |-> ""]
ResultReadFile(path) == [tag |-> "ReadFile", cfg |-> NoConfig, path |-> path]
ResultParseYaml == [tag |-> "ParseYaml", cfg |-> NoConfig, path |-> ""]

\* faulty variant of ResolveIncludeFeedTitle: the two layers are or-ed
ResolveIncludeFeedTitle_Or(raw_feed, default_include_feed_title) ==
    unwrap_or(raw_feed.include_feed_title, FALSE) \/ default_include_feed_title

\* faulty variant of ResolveRequestTimeout: the global value is skipped
ResolveRequestTimeout_BuiltIn(raw_feed, default_request_timeout) ==
    unwrap_or(raw_feed.request_timeout, DEFAULT_REQUEST_TIMEOUT)

\* lines 62-63: the per-feed values, falling back to the global ones
ResolveIncludeFeedTitle(raw_feed, default_include_feed_title) ==
    unwrap_or(raw_feed.include_feed_title, default_include_feed_title)

ResolveRequestTimeout(raw_feed, default_request_timeout) ==
    unwrap_or(raw_feed.request_timeout, default_request_timeout)

\* lines 64-70: Duration::from_secs keeps the whole seconds
FeedConfig(chat_id, raw_feed, dift, drt) ==
    [chat_id |-> chat_id,
     url |-> raw_feed.url,
     kind |-> raw_feed.kind,
     include_feed_title |-> ResolveIncludeFeedTitle(raw_feed, dift),
     request_timeout |-> ResolveRequestTimeout(raw_feed, drt)]

\* faulty variant of PushFeeds: the identifier is moved into the first feed of the
\* key and the later ones get an empty name
RECURSIVE PushFeeds_MoveFirst(_, _, _, _, _, _)
PushFeeds_MoveFirst(feeds, chat_id, raw_feeds, j, dift, drt) ==
    IF j > Len(raw_feeds) THEN feeds
    ELSE PushFeeds_MoveFirst(Append(feeds, FeedConfig(chat_id, raw_feeds[j], dift, drt)),
                             ChatIdUsername(<<>>), raw_feeds, j + 1, dift, drt)

\* lines 61-71: the inner loop over one key's entries
RECURSIVE PushFeeds(_, _, _, _, _, _)
PushFeeds(feeds, chat_id, raw_feeds, j, dift, drt) ==
    IF j > Len(raw_feeds) THEN feeds
    ELSE PushFeeds(Append(feeds, FeedConfig(chat_id, raw_feeds[j], dift, drt)),
                   chat_id, raw_feeds, j + 1, dift, drt)

\* lines 56-72: the outer loop, in the iteration order of the HashMap
RECURSIVE CollectFeeds(_, _, _, _, _, _)
CollectFeeds(feeds, raw_map, order, n, dift, drt) ==
    IF n > Len(order) THEN feeds
    ELSE CollectFeeds(PushFeeds(feeds, ResolveChatId(order[n]), raw_map[order[n]],
                                1, dift, drt),
                      raw_map, order, n + 1, dift, drt)

\* faulty variant of BuildConfig: the feeds vector is created inside the outer loop,
\* so that only the feeds of the last key remain
BuildConfig_VecPerKey(raw, order) ==
    [token |-> raw.token,
     proxy |-> raw.proxy,
     redis_url |-> raw.redis_url,
     feeds |-> IF order = <<>> THEN <<>>
               ELSE PushFeeds(<<>>, ResolveChatId(order[Len(order)]),
                              raw.feeds[order[Len(order)]], 1,
                              unwrap_or(raw.include_feed_title, DEFAULT_INCLUDE_FEED_TITLE),
                              unwrap_or(raw.request_timeout, DEFAULT_REQUEST_TIMEOUT))]

BuildConfig(raw, order) ==
    LET default_include_feed_title ==
            unwrap_or(raw.include_feed_title, DEFAULT_INCLUDE_FEED_TITLE)
        default_request_timeout ==
            unwrap_or(raw.request_timeout, DEFAULT_REQUEST_TIMEOUT)
    IN  [token |-> raw.token,
         proxy |-> raw.proxy,
         redis_url |-> raw.redis_url,
         feeds |-> CollectFeeds(<<>>, raw.feeds, order, 1,
                                default_include_feed_title, default_request_timeout)]

\* the whole of from_file, for one iteration order of raw.feeds
from_file(f, order) ==
    IF ~f.readable THEN ResultReadFile(f.path)
    ELSE IF ~DeRawConfigOk(f.doc) THEN ResultParseYaml
    ELSE ResultOk(BuildConfig(DeRawConfig(f.doc), order))

\* A HashMap iterates its keys in an order fixed by its hasher's random
\* seed: any arrangement of the keys, chosen anew for every map.
Arrangements(S) ==
    {o \in [1..Cardinality(S) -> S] : \A a, b \in 1..Cardinality(S) : o[a] = o[b] => a = b}

IterationOrders(f) ==
    IF f.readable /\ DeRawConfigOk(f.doc)
    THEN Arrangements(DOMAIN DeFeeds(f.doc.feeds))
    ELSE {<<>>}

-----------------------------------------------------------------------------
(* The accessors of Config.                                                *)

\* tgbot's Config::proxy parses the address; the texts the model offers are
\* two it accepts and two it rejects
ProxyTexts == {"http://127.0.0.1:8080", "socks5://user:pw@host:1080", "127.0.0.1:8080", "http//"}
WellFormedProxy(p) == p \in {"http://127.0.0.1:8080", "socks5://user:pw@host:1080"}

ApiOk(token, proxy) == [tag |-> "Ok", token |-> token, proxy |-> proxy]
ApiProxyAddress == [tag |-> "ProxyAddress", token |-> "", proxy |-> NoneStr]
ApiNone == [tag |-> "None", token |-> "", proxy |-> NoneStr]

\* faulty variant of get_api_config: a proxy that does not parse is left out
get_api_config_DropBadProxy(self) ==
    [self |-> self,
     out |-> IF self.proxy.some /\ WellFormedProxy(self.proxy.v)
             THEN ApiOk(self.token, SomeStr(self.proxy.v))
             ELSE ApiOk(self.token, NoneStr)]

\* faulty variant of get_api_config: the proxy is taken out of the Config
get_api_config_TakeProxy(self) ==
    [self |-> [self EXCEPT !.proxy = NoneStr],
     out |-> IF self.proxy.some
             THEN IF WellFormedProxy(self.proxy.v)
                  THEN ApiOk(self.token, SomeStr(self.proxy.v))
                  ELSE ApiProxyAddress
             ELSE ApiOk(self.token, NoneStr)]

\* &self: the call returns a value and the Config it was called on
get_api_config(self) ==
    LET config == ApiOk(self.token, NoneStr)
    IN  [self |-> self,
         out |-> IF self.proxy.some
                 THEN IF WellFormedProxy(self.proxy.v)
                      THEN ApiOk(config.token, SomeStr(self.proxy.v))
                      ELSE ApiProxyAddress
                 ELSE config]

redis_url(self) == [self |-> self, out |-> self.redis_url]

\* self: the Config is moved into the call
into_feeds(self) == self.feeds

-----------------------------------------------------------------------------
(* The files the loader is given.                                          *)

Paths == {"config.yaml", "/etc/telefeed.yaml"}

Token == Str("123456:token")
RedisUrl == Str("redis://127.0.0.1:6379")

Key12345 == <<"1", "2", "3", "4", "5">>
KeyChannel == <<"@", "c", "h", "a", "n", "n", "e", "l">>
KeyI64Max == <<"9", "2", "2", "3", "3", "7", "2", "0", "3", "6", "8", "5", "4", "7", "7", "5", "8", "0", "7">>
KeyI64MaxPlus1 == <<"9", "2", "2", "3", "3", "7", "2", "0", "3", "6", "8", "5", "4", "7", "7", "5", "8", "0", "8">>
KeyI64Min == <<"-">> \o KeyI64MaxPlus1
KeyI64MinMinus1 == <<"-", "9", "2", "2", "3", "3", "7", "2", "0", "3", "6", "8", "5", "4", "7", "7", "5", "8", "0", "9">>
KeyTwentyNines == [i \in 1..20 |-> "9"]

KeyAlphabet == {"0", "1", "-", "+", "a"}

SeqsUpTo(S, n) == UNION {[1..m -> S] : m \in 0..n}

KeyTexts ==
    SeqsUpTo(KeyAlphabet, MaxKeyLen)
        \cup {Key12345, KeyChannel, KeyI64Max, KeyI64MaxPlus1, KeyI64Min,
              KeyI64MinMinus1, KeyTwentyNines, <<"-", "1", "0", "0", "1">>,
              <<"+", "0", "0", "7">>, <<" ", "1">>, <<"1", " ">>, <<"1", ".", "5">>,
              <<"1", "_", "0">>, <<"0", "x", "1">>}

UrlTable ==
    << <<"https://a/1", "https://a/2", "https://a/3", "https://a/4">>,
       <<"https://b/1", "https://b/2", "https://b/3", "https://b/4">>,
       <<"https://c/1", "https://c/2", "https://c/3", "https://c/4">>,
       <<"https://d/1", "https://d/2", "https://d/3", "https://d/4">> >>

PlainEntry == Entry(Str("https://a/1"), Str("rss"), Absent, Absent)

PlainDoc(feeds) == Doc(Token, Absent, RedisUrl, feeds, Absent, Absent)

ReadableFile(doc) == [path |-> "config.yaml", readable |-> TRUE, doc |-> doc]

\* one destination key of every text, with one feed
KeyFiles ==
    {ReadableFile(PlainDoc(FeedsMap(<<Pair(k, EntryList(<<PlainEntry>>))>>))) : k \in KeyTexts}

\* the three layers of include_feed_title and request_timeout
LayerEntries ==
    {Entry(Str("https://a/1"), Str("atom"), ift, rt) :
        ift \in {Absent, Bool(TRUE), Bool(FALSE)}, rt \in {Absent, UInt(60)}}

LayerFiles ==
    {ReadableFile(Doc(Token, Absent, RedisUrl,
                      FeedsMap(<<Pair(Key12345, EntryList(items))>>), ift, rt)) :
        items \in SeqsUpTo(LayerEntries, MaxEntries) \ {<<>>},
        ift \in {Absent, Bool(TRUE), Bool(FALSE)},
        rt \in {Absent, UInt(30)}}

\* the proxy texts, with and without feeds
ProxyFiles ==
    {ReadableFile(Doc(Token, Str(p), RedisUrl, feeds, Absent, Absent)) :
        p \in ProxyTexts,
        feeds \in {FeedsMap(<<>>), FeedsMap(<<Pair(KeyChannel, EntryList(<<PlainEntry>>))>>)}}

\* documents that meet or break the schema
SchemaEntries ==
    {PlainEntry, ScalarEntry,
     Entry(Absent, Str("rss"), Absent, Absent),
     Entry(Coll, Str("rss"), Absent, Absent),
     Entry(Str("https://a/2"), Str("json"), Absent, Absent),
     Entry(Str("https://a/2"), Str("RSS"), Absent, Absent),
     Entry(Str("https://a/2"), Absent, Absent, Absent),
     Entry(Str("https://a/2"), Str("atom"), Str("yes"), Absent),
     Entry(Str("https://a/2"), Str("atom"), Absent, NegInt(5))}

\* lists of plain entries with one entry of SchemaEntries at any place
SchemaLists ==
    UNION {{[j \in 1..m |-> IF j = p THEN e ELSE PlainEntry] :
                e \in SchemaEntries, p \in 1..m} : m \in 1..MaxEntries}

SchemaFeeds ==
    {FeedsAbsent, FeedsScalar, FeedsMap(<<>>), FeedsMap(<<Pair(KeyChannel, ScalarList)>>)}
        \cup {FeedsMap(<<Pair(KeyChannel, EntryList(items))>>) : items \in SchemaLists}

SchemaFiles ==
    {ReadableFile(Doc(token, proxy, redis, feeds, ift, rt)) :
        token \in {Token, Absent, Coll},
        proxy \in {Absent, Coll},
        redis \in {RedisUrl, Absent},
        feeds \in SchemaFeeds,
        ift \in {Absent, Str("yes")},
        rt \in {Absent, NegInt(5)}}

\* a file that cannot be read, whatever it holds
UnreadableFiles ==
    {[path |-> p, readable |-> FALSE, doc |-> d] :
        p \in Paths,
        d \in {PlainDoc(FeedsMap(<<Pair(Key12345, EntryList(<<PlainEntry>>))>>)),
               PlainDoc(FeedsScalar)}}

Files == KeyFiles \cup LayerFiles \cup ProxyFiles \cup SchemaFiles \cup UnreadableFiles

\* several destination keys, each with a list of feeds
OrderKeys == {<<"1">>, <<"+", "1">>, <<"@", "a">>}

OrderEntry(n, j) ==
    Entry(Str(UrlTable[n][j]), Str(IF (n + j) % 2 = 0 THEN "rss" ELSE "atom"),
          Absent, IF j = 2 THEN UInt(60) ELSE Absent)

OrderFeeds(keys, lens) ==
    FeedsMap([n \in 1..Len(keys) |->
                Pair(keys[n], EntryList([j \in 1..lens[n] |-> OrderEntry(n, j)]))])

OrderFiles ==
    {ReadableFile(PlainDoc(OrderFeeds(keys, lens))) :
        <<keys, lens>> \in
            UNION {Arrangements(S) \X [1..Cardinality(S) -> 0..MaxEntries] :
                    S \in {T \in SUBSET OrderKeys : Cardinality(T) <= MaxKeys}}}

-----------------------------------------------------------------------------
(* The state: the file, what every from_file call returned and the order   *)
(* in which its HashMap iterated, the Config values the caller holds, and  *)
(* the last accessor call.  reads counts the calls of fs::read.            *)

Owned(cfg) == [state |-> "owned", cfg |-> cfg]
Moved == [state |-> "moved", cfg |-> NoConfig]
NotBuilt == [state |-> "none", cfg |-> NoConfig]

NoCall == [op |-> "none", idx |-> 0, api |-> ApiNone, url |-> "", feeds |-> <<>>]

StartWith(f) ==
    /\ file = f
    /\ reads = 0
    /\ results = <<>>
    /\ orders = <<>>
    /\ configs = <<>>
    /\ last = NoCall

Init == \E f \in Files : StartWith(f)

InitOrder == \E f \in OrderFiles : StartWith(f)

FromFile ==
    /\ Len(results) < MaxLoads
    /\ reads' = reads + 1
    /\ \E order \in IterationOrders(file) :
          LET r == from_file(file, order)
          IN  /\ results' = Append(results, r)
              /\ orders' = Append(orders, order)
              /\ configs' = Append(configs, IF r.tag = "Ok" THEN Owned(r.cfg) ELSE NotBuilt)
    /\ UNCHANGED <<file, last>>

GetApiConfig ==
    \E i \in 1..Len(configs) :
        /\ configs[i].state = "owned"
        /\ LET r == get_api_config(configs[i].cfg)
           IN  /\ configs' = [configs EXCEPT ![i] = Owned(r.self)]
               /\ last' = [op |-> "get_api_config", idx |-> i, api |-> r.out,
                           url |-> "", feeds |-> <<>>]
        /\ UNCHANGED <<file, reads, results, orders>>

GetRedisUrl ==
    \E i \in 1..Len(configs) :
        /\ configs[i].state = "owned"
        /\ LET r == redis_url(configs[i].cfg)
           IN  /\ configs' = [configs EXCEPT ![i] = Owned(r.self)]
               /\ last' = [op |-> "redis_url", idx |-> i, api |-> ApiNone,
                           url |-> r.out, feeds |-> <<>>]
        /\ UNCHANGED <<file, reads, results, orders>>

IntoFeeds ==
    \E i \in 1..Len(configs) :
        /\ configs[i].state = "owned"
        /\ configs' = [configs EXCEPT ![i] = Moved]
        /\ last' = [op |-> "into_feeds", idx |-> i, api |-> ApiNone,
                    url |-> "", feeds |-> into_feeds(configs[i].cfg)]
        /\ UNCHANGED <<file, reads, results, orders>>

Next == FromFile \/ GetApiConfig \/ GetRedisUrl \/ IntoFeeds

Spec == Init /\ [][Next]_vars

NextOrder == FromFile

SpecOrder == InitOrder /\ [][NextOrder]_vars

-----------------------------------------------------------------------------
(* The file as written, for stating what a load must produce.              *)

DocKeys == {file.doc.feeds.pairs[n].key : n \in 1..Len(file.doc.feeds.pairs)}

DocList(key) ==
    file.doc.feeds.pairs[CHOOSE n \in 1..Len(file.doc.feeds.pairs) :
                            file.doc.feeds.pairs[n].key = key].val.items

\* the number of feeds of the keys that come before the n-th of an order
RECURSIVE Before(_, _)
Before(order, n) ==
    IF n <= 1 THEN 0 ELSE Before(order, n - 1) + Len(DocList(order[n - 1]))

Loads == 1..Len(results)
OkLoads == {i \in Loads : results[i].tag = "Ok"}

\* <<n, j>>: the j-th entry of the n-th key the i-th load iterated
Slots(i) ==
    {<<n, j>> \in (1..Len(orders[i])) \X (1..(MaxEntries + 1)) :
        j <= Len(DocList(orders[i][n]))}

Pos(i, slot) == Before(orders[i], slot[1]) + slot[2]
KeyOf(i, slot) == orders[i][slot[1]]
EntryOf(i, slot) == DocList(KeyOf(i, slot))[slot[2]]
HasFeed(i, slot) == Pos(i, slot) \in 1..Len(results[i].cfg.feeds)
FeedOf(i, slot) == results[i].cfg.feeds[Pos(i, slot)]

\* the schema of section 6.1, field by field
ValidEntry(e) ==
    /\ e.t = "map"
    /\ e.url.t = "str"
    /\ e.kind.t = "str" /\ (e.kind.s = "rss" \/ e.kind.s = "atom")
    /\ e.include_feed_title.t = "absent" \/ e.include_feed_title.t = "bool"
    /\ e.request_timeout.t = "absent" \/ e.request_timeout.t = "uint"

ValidDoc(d) ==
    /\ d.token.t = "str"
    /\ d.redis_url.t = "str"
    /\ d.proxy.t = "absent" \/ d.proxy.t = "str"
    /\ d.include_feed_title.t = "absent" \/ d.include_feed_title.t = "bool"
    /\ d.request_timeout.t = "absent" \/ d.request_timeout.t = "uint"
    /\ d.feeds.t = "map"
    /\ \A n \in 1..Len(d.feeds.pairs) :
          /\ d.feeds.pairs[n].val.t = "seq"
          /\ \A j \in 1..Len(d.feeds.pairs[n].val.items) :
                ValidEntry(d.feeds.pairs[n].val.items[j])

-----------------------------------------------------------------------------
\* C1: every feed's include_feed_title is the entry's own value when the
\* entry gives one (true or false), else the file's global value when the
\* file gives one, else false.
C1_IncludeFeedTitleLayers ==
    \A i \in OkLoads : \A slot \in Slots(i) :
        /\ HasFeed(i, slot)
        /\ FeedOf(i, slot).include_feed_title =
              IF EntryOf(i, slot).include_feed_title.t = "bool"
              THEN EntryOf(i, slot).include_feed_title.b
              ELSE IF file.doc.include_feed_title.t = "bool"
                   THEN file.doc.include_feed_title.b
                   ELSE FALSE

\* an entry that says false under a global true was loaded as false
C1_Witness ==
    \E i \in OkLoads : \E slot \in Slots(i) :
        /\ file.doc.include_feed_title = Bool(TRUE)
        /\ EntryOf(i, slot).include_feed_title = Bool(FALSE)
        /\ HasFeed(i, slot)
        /\ FeedOf(i, slot).include_feed_title = FALSE

\* C2: every feed's request_timeout, in seconds, is the entry's own value
\* when present, else the file's global value when present, else 1200.
C2_RequestTimeoutLayers ==
    \A i \in OkLoads : \A slot \in Slots(i) :
        /\ HasFeed(i, slot)
        /\ FeedOf(i, slot).request_timeout =
              IF EntryOf(i, slot).request_timeout.t = "uint"
              THEN EntryOf(i, slot).request_timeout.n
              ELSE IF file.doc.request_timeout.t = "uint"
                   THEN file.doc.request_timeout.n
                   ELSE 1200

\* a global 30 reached a feed with no timeout of its own, next to a feed
\* that kept its own 60
C2_Witness ==
    \E i \in OkLoads : \E s1, s2 \in Slots(i) :
        /\ file.doc.request_timeout = UInt(30)
        /\ EntryOf(i, s1).request_timeout = Absent
        /\ EntryOf(i, s2).request_timeout = UInt(60)
        /\ HasFeed(i, s1) /\ HasFeed(i, s2)
        /\ FeedOf(i, s1).request_timeout = 30
        /\ FeedOf(i, s2).request_timeout = 60

-----------------------------------------------------------------------------
(* Decimal text, for C3.                                                   *)

SignedBody(key) == IF key # <<>> /\ key[1] \in {"+", "-"} THEN Tail(key) ELSE key

IsIntegerText(key) ==
    /\ SignedBody(key) # <<>>
    /\ \A p \in 1..Len(SignedBody(key)) : IsDigit(SignedBody(key)[p])

\* the digits without their leading zeros
Significant(digits) ==
    IF \A p \in 1..Len(digits) : digits[p] = "0" THEN <<"0">>
    ELSE SubSeq(digits,
                CHOOSE p \in 1..Len(digits) :
                    digits[p] # "0" /\ \A q \in 1..(p - 1) : digits[q] = "0",
                Len(digits))

CanonicalText(key) ==
    LET sig == Significant(SignedBody(key))
    IN  IF key[1] = "-" /\ sig # <<"0">> THEN <<"-">> \o sig ELSE sig

FitsI64(key) ==
    LET sig == Significant(SignedBody(key))
        limit == IF key[1] = "-" THEN KeyI64MaxPlus1 ELSE KeyI64Max
    IN  \/ Len(sig) < 19
        \/ /\ Len(sig) = 19
           /\ \A p \in 1..19 :
                 (\A q \in 1..(p - 1) : sig[q] = limit[q])
                     => DigitVal(sig[p]) <= DigitVal(limit[p])

\* Display of an i64
Render(val) ==
    (IF val.neg THEN <<"-">> ELSE <<>>) \o [p \in 1..Len(val.mag) |-> DigitChars[val.mag[p] + 1]]

\* C3: a key that reads as a signed integer within i64 becomes Id of that
\* integer; every other key, the empty one and the out-of-range ones
\* included, becomes Username of the key's own text; no key makes the load
\* fail.
C3_ChatIdResolution ==
    /\ \A i \in Loads : file \in KeyFiles => results[i].tag = "Ok"
    /\ \A i \in OkLoads : \A slot \in Slots(i) :
          LET key == KeyOf(i, slot)
          IN  /\ HasFeed(i, slot)
              /\ IF IsIntegerText(key) /\ FitsI64(key)
                 THEN /\ FeedOf(i, slot).chat_id.tag = "Id"
                      /\ Render(FeedOf(i, slot).chat_id.id) = CanonicalText(key)
                 ELSE /\ FeedOf(i, slot).chat_id.tag = "Username"
                      /\ FeedOf(i, slot).chat_id.name = key
              /\ key = Key12345 =>
                    FeedOf(i, slot).chat_id = ChatIdId([neg |-> FALSE, mag |-> <<1, 2, 3, 4, 5>>])
              /\ key \in {KeyChannel, <<>>, KeyI64MaxPlus1, KeyI64MinMinus1, KeyTwentyNines} =>
                    FeedOf(i, slot).chat_id = ChatIdUsername(key)

\* a numeric-looking key one past i64::MAX was loaded as a Username
C3_Witness ==
    \E i \in OkLoads : \E slot \in Slots(i) :
        /\ KeyOf(i, slot) = KeyI64MaxPlus1
        /\ HasFeed(i, slot)
        /\ FeedOf(i, slot).chat_id.tag = "Username"
        /\ FeedOf(i, slot).chat_id.name = KeyI64MaxPlus1

-----------------------------------------------------------------------------
(* What the file order would give, for C4.                                 *)

\* the urls of the file's entries, key after key as the file lists them
RECURSIVE FileOrderUrls(_)
FileOrderUrls(n) ==
    IF n = 0 THEN <<>>
    ELSE FileOrderUrls(n - 1)
            \o [j \in 1..Len(file.doc.feeds.pairs[n].val.items) |->
                    file.doc.feeds.pairs[n].val.items[j].url.s]

FeedUrls(i) == [p \in 1..Len(results[i].cfg.feeds) |-> results[i].cfg.feeds[p].url]

\* C4: the feeds of a load are in file order: key after key as the feeds
\* mapping of the file lists them, and within a key in the order of its list.
C4_FileOrder ==
    \A i \in OkLoads : FeedUrls(i) = FileOrderUrls(Len(file.doc.feeds.pairs))

\* C5: two loads of the same unchanged file return equal values: the same
\* token, proxy and redis_url and the same feeds at every position.
C5_LoadIdempotent ==
    \A i, k \in Loads :
        /\ results[i].tag = results[k].tag
        /\ results[i].cfg.token = results[k].cfg.token
        /\ results[i].cfg.proxy = results[k].cfg.proxy
        /\ results[i].cfg.redis_url = results[k].cfg.redis_url
        /\ Len(results[i].cfg.feeds) = Len(results[k].cfg.feeds)
        /\ \A p \in 1..Len(results[i].cfg.feeds) :
              p <= Len(results[k].cfg.feeds)
                  => results[i].cfg.feeds[p] = results[k].cfg.feeds[p]

-----------------------------------------------------------------------------
\* C6: a load returns a whole Config or one error and nothing in between:
\* an unreadable file gives ReadFile with the requested path whatever the
\* file holds, a readable file that breaks the schema (a kind such as "json"
\* next to valid entries included) gives ParseYaml, any other file gives a
\* Config with all its feeds; every load reads the file once.
C6_AllOrNothing ==
    /\ reads = Len(results)
    /\ Len(configs) = Len(results)
    /\ \A i \in Loads :
          /\ ~file.readable => results[i] = ResultReadFile(file.path)
          /\ file.readable /\ ~ValidDoc(file.doc) => results[i] = ResultParseYaml
          /\ file.readable /\ ValidDoc(file.doc) =>
                /\ results[i].tag = "Ok"
                /\ results[i].cfg.token = file.doc.token.s
                /\ results[i].cfg.redis_url = file.doc.redis_url.s
                /\ Len(results[i].cfg.feeds) = Before(orders[i], Len(orders[i]) + 1)
          /\ results[i].tag # "Ok" => results[i].cfg = NoConfig /\ configs[i] = NotBuilt
          /\ (\E n \in 1..Len(file.doc.feeds.pairs) :
                \E j \in 1..Len(file.doc.feeds.pairs[n].val.items) :
                    file.doc.feeds.pairs[n].val.items[j].kind = Str("json"))
                => results[i].tag # "Ok"

\* a readable file whose first entry is valid and whose second has kind
\* "json" was refused with ParseYaml, and nothing else in it is wrong
C6_Witness ==
    \E i \in Loads :
        /\ file.readable
        /\ file.doc.feeds.t = "map"
        /\ Len(file.doc.feeds.pairs) = 1
        /\ file.doc.feeds.pairs[1].val =
              EntryList(<<PlainEntry, Entry(Str("https://a/2"), Str("json"), Absent, Absent)>>)
        /\ ValidDoc([file.doc EXCEPT !.feeds = FeedsMap(<<>>)])
        /\ results[i] = ResultParseYaml
        /\ configs[i] = NotBuilt

-----------------------------------------------------------------------------
\* C7: the proxy is checked by get_api_config and not by the load: a file
\* that meets the schema loads with its proxy text stored as written, valid
\* or not; get_api_config fails with ProxyAddress exactly when a proxy is
\* present and malformed, and otherwise returns the token (and the proxy);
\* a load never fails with ProxyAddress, get_api_config with nothing else.
C7_ProxyCheckedOnDerivation ==
    /\ \A i \in Loads :
          /\ results[i].tag \in {"Ok", "ReadFile", "ParseYaml"}
          /\ file.readable /\ ValidDoc(file.doc) =>
                /\ results[i].tag = "Ok"
                /\ results[i].cfg.proxy =
                      IF file.doc.proxy.t = "str" THEN SomeStr(file.doc.proxy.s) ELSE NoneStr
    /\ last.op = "get_api_config" =>
          /\ last.api.tag \in {"Ok", "ProxyAddress"}
          /\ last.api.tag = "ProxyAddress"
                <=> (file.doc.proxy.t = "str" /\ ~WellFormedProxy(file.doc.proxy.s))
          /\ last.api.tag = "Ok" =>
                /\ last.api.token = file.doc.token.s
                /\ last.api.proxy =
                      IF file.doc.proxy.t = "str" THEN SomeStr(file.doc.proxy.s) ELSE NoneStr

\* a file with a proxy that lacks its scheme was loaded, and get_api_config
\* on the loaded Config failed with ProxyAddress
C7_Witness ==
    /\ file.doc.proxy = Str("127.0.0.1:8080")
    /\ last.op = "get_api_config"
    /\ results[last.idx].tag = "Ok"
    /\ results[last.idx].cfg.proxy = SomeStr("127.0.0.1:8080")
    /\ last.api = ApiProxyAddress

-----------------------------------------------------------------------------
\* C8: a Config is never changed after from_file built it: while the caller
\* owns it, it equals what the load returned, whatever get_api_config and
\* redis_url calls were made and whether they failed; the calls return what
\* the loaded value determines; into_feeds returns the feeds the load built
\* and leaves a moved Config on which no accessor runs any more.
C8_StateOk ==
    /\ \A i \in Loads :
          /\ configs[i].state = "owned" => results[i].tag = "Ok" /\ configs[i].cfg = results[i].cfg
          /\ configs[i].state = "none" <=> results[i].tag # "Ok"
    /\ last.op = "get_api_config" =>
          last.api = (IF ~results[last.idx].cfg.proxy.some
                      THEN ApiOk(results[last.idx].cfg.token, NoneStr)
                      ELSE IF WellFormedProxy(results[last.idx].cfg.proxy.v)
                           THEN ApiOk(results[last.idx].cfg.token, results[last.idx].cfg.proxy)
                           ELSE ApiProxyAddress)
    /\ last.op = "redis_url" => last.url = results[last.idx].cfg.redis_url
    /\ last.op = "into_feeds" =>
          /\ last.feeds = results[last.idx].cfg.feeds
          /\ configs[last.idx] = Moved

C8_StepOk ==
    /\ results' # results => last' = last
    /\ \A i \in Loads :
          /\ results'[i] = results[i]
          /\ configs[i].state = "moved" =>
                /\ configs'[i] = Moved
                /\ last' # last => last'.idx # i
          /\ configs[i].state = "owned" =>
                \/ configs'[i] = configs[i]
                \/ configs'[i] = Moved /\ last'.op = "into_feeds" /\ last'.idx = i
          /\ (last.op = "get_api_config" /\ last'.op = "get_api_config" /\ last'.idx = last.idx)
                => last'.api = last.api

C8_ConfigImmutable == [](C8_StateOk) /\ [][C8_StepOk]_vars

\* into_feeds on one Config returned the feeds its load built and the Config
\* is gone, while the Config of another load of the file is still owned and
\* unchanged
C8_Witness ==
    /\ last.op = "into_feeds"
    /\ Len(last.feeds) >= 2
    /\ last.feeds = results[last.idx].cfg.feeds
    /\ configs[last.idx] = Moved
    /\ \E i \in Loads : configs[i].state = "owned" /\ configs[i].cfg = results[i].cfg

-----------------------------------------------------------------------------
\* the identifiers that the feeds of a key carry, in all loads
ChatIdsOfKey(key) ==
    UNION {{FeedOf(i, slot).chat_id : slot \in {s \in Slots(i) : KeyOf(i, s) = key}} :
            i \in OkLoads}

\* C9: feeds that come from the same destination key carry equal chat
\* identifiers, within a load and across loads, whatever their entry and
\* their position: a key has one identifier at most.
C9_SameKeySameChatId ==
    /\ \A i \in OkLoads : \A slot \in Slots(i) : HasFeed(i, slot)
    /\ \A key \in DocKeys : Cardinality(ChatIdsOfKey(key)) <= 1

\* two feeds of one key, at different positions of the output, with equal
\* identifiers
C9_Witness ==
    \E i \in OkLoads : \E s1, s2 \in Slots(i) :
        /\ s1[1] = s2[1] /\ s1[2] # s2[2]
        /\ s1[1] >= 2
        /\ HasFeed(i, s1) /\ HasFeed(i, s2)
        /\ FeedOf(i, s1).chat_id = FeedOf(i, s2).chat_id

\* C10: a load builds one feed per entry: as many feeds as the lists of all
\* keys have entries, the feeds of a key next to each other in the order of
\* its list, each with the url and the kind of its entry; no feeds when the
\* mapping is empty or holds only empty lists.
C10_OneFeedPerEntry ==
    \A i \in OkLoads :
        /\ Len(orders[i]) = Cardinality(DocKeys)
        /\ {orders[i][n] : n \in 1..Len(orders[i])} = DocKeys
        /\ Len(results[i].cfg.feeds) = Before(orders[i], Len(orders[i]) + 1)
        /\ (\A k \in DocKeys : DocList(k) = <<>>) => results[i].cfg.feeds = <<>>
        /\ \A slot \in Slots(i) :
              /\ HasFeed(i, slot)
              /\ FeedOf(i, slot).url = EntryOf(i, slot).url.s
              /\ FeedOf(i, slot).kind =
                    (IF EntryOf(i, slot).kind.s = "rss" THEN "Rss" ELSE "Atom")

\* two keys with two entries each gave four feeds
C10_Witness ==
    \E i \in OkLoads :
        /\ Len(orders[i]) = 2
        /\ Len(DocList(orders[i][1])) = 2
        /\ Len(DocList(orders[i][2])) = 2
        /\ Len(results[i].cfg.feeds) = 4
        /\ results[i].cfg.feeds[3].url = DocList(orders[i][2])[1].url.s

====
